---------------------------- MODULE Spec2Model ----------------------------
(***************************************************************************)
(* A model of app.py, the AI Career Advisor Streamlit script.              *)
(*                                                                         *)
(* Streamlit re-executes the whole script on every user interaction.  One  *)
(* script execution is modelled as a chain of steps driven by pc:          *)
(*   idle -> config -> keycheck -> widgets -> validate -> extract ->       *)
(*   request -> render -> idle                                             *)
(* Text is a sequence of one-character strings, so that strip(), replace() *)
(* and json.loads() are computed character by character as Python does.    *)
(* Python values are records of one uniform shape (PyVal below).           *)
(***************************************************************************)
EXTENDS Integers, Sequences, FiniteSets, TLC

(***************************************************************************)
(* Bounds of the model.                                                    *)
(***************************************************************************)
MaxSubmits == 2
MaxPages == 2

(***************************************************************************)
(* Python values: None, bool, int, str, list, dict.  A dict is the         *)
(* sequence of its items in insertion order, keys (str) distinct.          *)
(***************************************************************************)
PyNone == [t |-> "None", b |-> FALSE, n |-> 0, s |-> <<>>, items |-> <<>>]

PyBool(x) == [t |-> "bool", b |-> x, n |-> 0, s |-> <<>>, items |-> <<>>]

PyInt(x) == [t |-> "int", b |-> FALSE, n |-> x, s |-> <<>>, items |-> <<>>]

PyStr(x) == [t |-> "str", b |-> FALSE, n |-> 0, s |-> x, items |-> <<>>]

PyList(x) == [t |-> "list", b |-> FALSE, n |-> 0, s |-> <<>>, items |-> x]

PyDict(x) == [t |-> "dict", b |-> FALSE, n |-> 0, s |-> <<>>, items |-> x]

\* One item of a dict: key k (text) and value v.
Item(key, val) == [k |-> key, v |-> val]

\* Python truth value testing, as applied by `if x:` and `not x`.
Truthy(x) ==
    CASE x.t = "None" -> FALSE
      [] x.t = "bool" -> x.b
      [] x.t = "int"  -> x.n # 0
      [] x.t = "str"  -> Len(x.s) > 0
      [] OTHER        -> Len(x.items) > 0

RECURSIVE FindKey(_, _, _)
\* Index of key in the items of a dict from position i on, 0 when absent.
FindKey(items, key, i) ==
    IF i > Len(items) THEN 0
    ELSE IF items[i].k = key THEN i
    ELSE FindKey(items, key, i + 1)

\* dict.get(key, default)
DictGet(d, key, default) ==
    LET i == FindKey(d.items, key, 1)
    IN  IF i = 0 THEN default ELSE d.items[i].v

\* d[key] = val on the dict under construction: a repeated key keeps its
\* place and takes the last value.
DictSet(items, key, val) ==
    LET i == FindKey(items, key, 1)
    IN  IF i = 0 THEN Append(items, Item(key, val))
        ELSE [items EXCEPT ![i] = Item(key, val)]


(***************************************************************************)
(* Text: str.strip() and str.replace(old, new).                            *)
(***************************************************************************)
Whitespace == {" ", "\n", "\t", "\r"}

\* Whether word stands in s at position i.
StartsAt(s, i, word) ==
    /\ i + Len(word) - 1 <= Len(s)
    /\ SubSeq(s, i, i + Len(word) - 1) = word

\* The least index from i on whose character is not in set, Len(s) + 1 when
\* there is none.
FirstOutside(s, i, set) ==
    IF \A j \in i..Len(s) : s[j] \in set THEN Len(s) + 1
    ELSE CHOOSE j \in i..Len(s) :
             s[j] \notin set /\ \A h \in i..(j - 1) : s[h] \in set

\* The greatest index whose character is not in set, 0 when there is none.
LastOutside(s, set) ==
    IF \A j \in 1..Len(s) : s[j] \in set THEN 0
    ELSE CHOOSE j \in 1..Len(s) :
             s[j] \notin set /\ \A h \in (j + 1)..Len(s) : s[h] \in set

\* s.strip()
Strip(s) == SubSeq(s, FirstOutside(s, 1, Whitespace), LastOutside(s, Whitespace))

\* s.find(old) + 1: the index of the first occurrence of old, 0 when absent.
Find(s, old) ==
    IF \A j \in 1..Len(s) : ~StartsAt(s, j, old) THEN 0
    ELSE CHOOSE j \in 1..Len(s) :
             StartsAt(s, j, old) /\ \A h \in 1..(j - 1) : ~StartsAt(s, h, old)

RECURSIVE Replace(_, _, _)
\* s.replace(old, new) for a non-empty old: every non-overlapping
\* occurrence, left to right.
Replace(s, old, new) ==
    LET j == Find(s, old)
    IN  IF j = 0 THEN s
        ELSE SubSeq(s, 1, j - 1) \o new
             \o Replace(SubSeq(s, j + Len(old), Len(s)), old, new)

\* The backquote character, which a TLA+ string cannot hold, is written ~.
Backquote == "~"

\* The triple backquote.
Fence == <<Backquote, Backquote, Backquote>>

FenceJson == Fence \o <<"j", "s", "o", "n">>

\* cleaned_response of get_gemini_response.
CleanResponse(text) ==
    Strip(Replace(Replace(Strip(text), FenceJson, <<>>), Fence, <<>>))

(***************************************************************************)
(* json.loads on the JSON documents of the model's alphabet: objects,      *)
(* arrays, strings without escapes, integers, true, false, null.  A parse  *)
(* step returns [ok, v, i]: success, the value, and the index after it.    *)
(***************************************************************************)
Digits == {"0", "1", "2", "3", "4", "5", "6", "7", "8", "9"}

DigitVal(c) ==
    CASE c = "0" -> 0 [] c = "1" -> 1 [] c = "2" -> 2 [] c = "3" -> 3
      [] c = "4" -> 4 [] c = "5" -> 5 [] c = "6" -> 6 [] c = "7" -> 7
      [] c = "8" -> 8 [] c = "9" -> 9

ParseFail == [ok |-> FALSE, v |-> PyNone, i |-> 0]

ParseOk(val, next) == [ok |-> TRUE, v |-> val, i |-> next]

\* The index of the first character from i on that is no JSON whitespace.
SkipWs(s, i) == FirstOutside(s, i, {" ", "\n", "\t", "\r"})

\* Index of the closing quote of the string whose text starts at i, 0 when
\* the string is unterminated or holds a control character.
StringEnd(s, i) ==
    LET e == FirstOutside(s, i, {c \in {s[j] : j \in i..Len(s)} :
                                    c \notin {"\"", "\n", "\t", "\r"}})
    IN  IF e <= Len(s) /\ s[e] = "\"" THEN e ELSE 0

\* A string; i is the index after its opening quote.
ParseString(s, i) ==
    LET e == StringEnd(s, i)
    IN  IF e = 0 THEN ParseFail ELSE ParseOk(PyStr(SubSeq(s, i, e - 1)), e + 1)

RECURSIVE ParseDigits(_, _, _)
\* The digits from i on, acc the value of those read so far.
ParseDigits(s, i, acc) ==
    IF i <= Len(s) /\ s[i] \in Digits
    THEN ParseDigits(s, i + 1, 10 * acc + DigitVal(s[i]))
    ELSE [n |-> acc, i |-> i]

\* An integer: -?(0|[1-9][0-9]*), i at its first digit.
ParseInt(s, i, sign) ==
    IF i > Len(s) \/ s[i] \notin Digits THEN ParseFail
    ELSE IF s[i] = "0" THEN ParseOk(PyInt(0), i + 1)
    ELSE LET r == ParseDigits(s, i, 0) IN ParseOk(PyInt(sign * r.n), r.i)

RECURSIVE ParseValue(_, _)
RECURSIVE ParseMembers(_, _, _)
RECURSIVE ParseElements(_, _, _)

\* A value; i is the index of its first character.
ParseValue(s, i) ==
    IF i > Len(s) THEN ParseFail
    ELSE CASE s[i] = "\"" -> ParseString(s, i + 1)
           [] s[i] = "{" ->
                LET j == SkipWs(s, i + 1)
                IN  IF j <= Len(s) /\ s[j] = "}" THEN ParseOk(PyDict(<<>>), j + 1)
                    ELSE ParseMembers(s, j, <<>>)
           [] s[i] = "[" ->
                LET j == SkipWs(s, i + 1)
                IN  IF j <= Len(s) /\ s[j] = "]" THEN ParseOk(PyList(<<>>), j + 1)
                    ELSE ParseElements(s, j, <<>>)
           [] s[i] = "-" -> ParseInt(s, i + 1, -1)
           [] s[i] \in Digits -> ParseInt(s, i, 1)
           [] StartsAt(s, i, <<"t", "r", "u", "e">>) -> ParseOk(PyBool(TRUE), i + 4)
           [] StartsAt(s, i, <<"f", "a", "l", "s", "e">>) -> ParseOk(PyBool(FALSE), i + 5)
           [] StartsAt(s, i, <<"n", "u", "l", "l">>) -> ParseOk(PyNone, i + 4)
           [] OTHER -> ParseFail

\* The members of an object from the key at i on; acc the items so far.
ParseMembers(s, i, acc) ==
    IF i > Len(s) \/ s[i] # "\"" THEN ParseFail
    ELSE LET key == ParseString(s, i + 1)
             c   == SkipWs(s, key.i)
         IN  IF ~key.ok \/ c > Len(s) \/ s[c] # ":" THEN ParseFail
             ELSE LET val  == ParseValue(s, SkipWs(s, c + 1))
                      e    == SkipWs(s, val.i)
                      more == DictSet(acc, key.v.s, val.v)
                  IN  IF ~val.ok \/ e > Len(s) THEN ParseFail
                      ELSE IF s[e] = "}" THEN ParseOk(PyDict(more), e + 1)
                      ELSE IF s[e] = "," THEN ParseMembers(s, SkipWs(s, e + 1), more)
                      ELSE ParseFail

\* The elements of an array from the value at i on; acc those read so far.
ParseElements(s, i, acc) ==
    LET val  == ParseValue(s, i)
        e    == SkipWs(s, val.i)
        more == Append(acc, val.v)
    IN  IF ~val.ok \/ e > Len(s) THEN ParseFail
        ELSE IF s[e] = "]" THEN ParseOk(PyList(more), e + 1)
        ELSE IF s[e] = "," THEN ParseElements(s, SkipWs(s, e + 1), more)
        ELSE ParseFail

\* json.loads(s): ok is FALSE where json.loads raises JSONDecodeError.
JsonLoads(s) ==
    LET r == ParseValue(s, SkipWs(s, 1))
    IN  IF r.ok /\ SkipWs(s, r.i) = Len(s) + 1 THEN r ELSE ParseFail


(***************************************************************************)
(* String literals of app.py.                                              *)
(***************************************************************************)
K_match_score ==
    <<"m", "a", "t", "c", "h", "_", "s", "c", "o", "r", "e">>

K_candidate_summary ==
    <<"c", "a", "n", "d", "i", "d", "a", "t", "e", "_", "s", "u", "m", "m",
      "a", "r", "y">>

K_missing_skills ==
    <<"m", "i", "s", "s", "i", "n", "g", "_", "s", "k", "i", "l", "l", "s">>

K_resume_recommendations ==
    <<"r", "e", "s", "u", "m", "e", "_", "r", "e", "c", "o", "m", "m", "e",
      "n", "d", "a", "t", "i", "o", "n", "s">>

K_career_advice ==
    <<"c", "a", "r", "e", "e", "r", "_", "a", "d", "v", "i", "c", "e">>

K_feedback ==
    <<"f", "e", "e", "d", "b", "a", "c", "k">>

K_skill ==
    <<"s", "k", "i", "l", "l">>

K_importance ==
    <<"i", "m", "p", "o", "r", "t", "a", "n", "c", "e">>

K_explanation ==
    <<"e", "x", "p", "l", "a", "n", "a", "t", "i", "o", "n">>

NotApplicable ==
    <<"N", "/", "A">>

NotAvailable ==
    <<"N", "o", "t", " ", "a", "v", "a", "i", "l", "a", "b", "l", "e", ".">>

NoResponseReceived ==
    <<"N", "o", " ", "r", "e", "s", "p", "o", "n", "s", "e", " ", "r", "e",
      "c", "e", "i", "v", "e", "d">>

(***************************************************************************)
(* Inputs.  The remote model answers with a document, possibly wrapped in  *)
(* a fence: the response text is a prefix, the document and a suffix.      *)
(***************************************************************************)
\* A full object of the schema of the prompt.
DocFull ==
    <<"{", "\"", "m", "a", "t", "c", "h", "_", "s", "c", "o", "r", "e",
      "\"", ":", "8", "0", ",", "\"", "c", "a", "n", "d", "i", "d", "a",
      "t", "e", "_", "s", "u", "m", "m", "a", "r", "y", "\"", ":", "\"",
      "f", "i", "t", "\"", ",", "\"", "m", "i", "s", "s", "i", "n", "g",
      "_", "s", "k", "i", "l", "l", "s", "\"", ":", "[", "{", "\"", "s",
      "k", "i", "l", "l", "\"", ":", "\"", "s", "q", "l", "\"", ",", "\"",
      "i", "m", "p", "o", "r", "t", "a", "n", "c", "e", "\"", ":", "\"",
      "H", "i", "g", "h", "\"", ",", "\"", "e", "x", "p", "l", "a", "n",
      "a", "t", "i", "o", "n", "\"", ":", "\"", "d", "b", "\"", "}", "]",
      ",", "\"", "r", "e", "s", "u", "m", "e", "_", "r", "e", "c", "o",
      "m", "m", "e", "n", "d", "a", "t", "i", "o", "n", "s", "\"", ":",
      "[", "\"", "a", "d", "d", " ", "s", "q", "l", "\"", "]", ",", "\"",
      "c", "a", "r", "e", "e", "r", "_", "a", "d", "v", "i", "c", "e",
      "\"", ":", "\"", "l", "e", "a", "r", "n", "\"", ",", "\"", "f", "e",
      "e", "d", "b", "a", "c", "k", "\"", ":", "\"", "g", "o", "o", "d",
      "\"", "}">>

\* An object with missing fields.
DocPartial ==
    <<"{", "\"", "m", "a", "t", "c", "h", "_", "s", "c", "o", "r", "e",
      "\"", ":", " ", "7", "3", ",", " ", "\"", "f", "e", "e", "d", "b",
      "a", "c", "k", "\"", ":", " ", "\"", "G", "o", "o", "d", " ", "f",
      "i", "t", "\"", "}">>

DocEmptyObject ==
    <<"{", "}">>

DocEmptyList ==
    <<"[", "]">>

DocZero ==
    <<"0">>

DocFalse ==
    <<"f", "a", "l", "s", "e">>

DocNull ==
    <<"n", "u", "l", "l">>

DocEmptyString ==
    <<"\"", "\"">>

\* Non-object values that are true.
DocList ==
    <<"[", "1", "]">>

DocNumber ==
    <<"7">>

DocString ==
    <<"\"", "h", "i", "\"">>

\* missing_skills whose entries are not objects.
DocSkillStrings ==
    <<"{", "\"", "m", "i", "s", "s", "i", "n", "g", "_", "s", "k", "i",
      "l", "l", "s", "\"", ":", "[", "\"", "s", "q", "l", "\"", "]", "}">>

DocSkillMixed ==
    <<"{", "\"", "m", "i", "s", "s", "i", "n", "g", "_", "s", "k", "i",
      "l", "l", "s", "\"", ":", "[", "{", "\"", "s", "k", "i", "l", "l",
      "\"", ":", "\"", "s", "q", "l", "\"", "}", ",", "\"", "g", "o", "\"",
      "]", "}">>

DocSkillNull ==
    <<"{", "\"", "m", "i", "s", "s", "i", "n", "g", "_", "s", "k", "i",
      "l", "l", "s", "\"", ":", "n", "u", "l", "l", "}">>

DocSkillEmpty ==
    <<"{", "\"", "m", "i", "s", "s", "i", "n", "g", "_", "s", "k", "i",
      "l", "l", "s", "\"", ":", "[", "]", "}">>

\* resume_recommendations that is no list.
DocRecsNumber ==
    <<"{", "\"", "r", "e", "s", "u", "m", "e", "_", "r", "e", "c", "o",
      "m", "m", "e", "n", "d", "a", "t", "i", "o", "n", "s", "\"", ":",
      "5", "}">>

\* String values that hold a fence marker.
DocFenceInValue ==
    <<"{", "\"", "f", "e", "e", "d", "b", "a", "c", "k", "\"", ":", "\"",
      "u", "s", "e", " ", "~", "~", "~", " ", "h", "e", "r", "e", "\"", "}">>

DocFenceJsonInValue ==
    <<"{", "\"", "f", "e", "e", "d", "b", "a", "c", "k", "\"", ":", "\"",
      "~", "~", "~", "j", "s", "o", "n", "\"", "}">>

\* Text that is no JSON.
DocProse ==
    <<"S", "o", "r", "r", "y">>

DocTruncated ==
    <<"{", "\"", "m", "a", "t", "c", "h", "_", "s", "c", "o", "r", "e",
      "\"", ":">>

Documents ==
    {DocFull, DocPartial, DocEmptyObject, DocEmptyList,
     DocZero, DocFalse, DocNull, DocEmptyString,
     DocList, DocNumber, DocString, DocSkillStrings,
     DocSkillMixed, DocSkillNull, DocSkillEmpty, DocRecsNumber,
     DocFenceInValue, DocFenceJsonInValue, DocProse, DocTruncated}

PrefixNone ==
    <<>>

PrefixJson ==
    <<"~", "~", "~", "j", "s", "o", "n", "\n">>

PrefixBare ==
    <<" ", "~", "~", "~", "\n">>

PrefixPython ==
    <<"~", "~", "~", "p", "y", "t", "h", "o", "n", "\n">>

Prefixes == {PrefixNone, PrefixJson, PrefixBare, PrefixPython}

SuffixNone ==
    <<>>

SuffixFence ==
    <<"\n", "~", "~", "~", " ", "\n">>

Suffixes == {SuffixNone, SuffixFence}

\* The texts a page of an uploaded PDF can hold.
PageTexts == {<<>>, <<"c", "v">>}

\* st.file_uploader's value: no file, or the uploaded bytes; parseable tells
\* whether fitz.open accepts them, pages is the text of each page.
NoFile == [present |-> FALSE, parseable |-> FALSE, pages |-> <<>>]

BadFile == [present |-> TRUE, parseable |-> FALSE, pages |-> <<>>]

PdfFiles ==
    {[present |-> TRUE, parseable |-> TRUE, pages |-> p] :
        p \in UNION {[1..n -> PageTexts] : n \in 1..MaxPages}}

Files == {NoFile, BadFile} \cup PdfFiles

\* The texts of the job-description text area.
JobDescriptions == {<<>>, <<" ">>, <<"d", "e", "v">>}

\* os.getenv("GOOGLE_API_KEY"): unset, set to the empty string, or a key.
ApiKeys == {PyNone, PyStr(<<>>), PyStr(<<"k", "e", "y">>)}

\* genai.GenerativeModel('gemini-1.5-flash'): an object, which is true.
GenerativeModel == PyStr(<<"g", "e", "m", "i", "n", "i">>)

(***************************************************************************)
(* The page: the sequence of elements the st.* calls of a run have put on  *)
(* it.  k is the call, id the label or field it shows, e the exception     *)
(* whose message it carries, v the value shown.                            *)
(***************************************************************************)
Elem(kind, id, exc, val) == [k |-> kind, id |-> id, e |-> exc, v |-> val]

\* An exception no handler catches: Streamlit ends the run and shows it.
Uncaught(exc) == Elem("exception", "uncaught", exc, PyNone)

VARIABLES
    API_KEY,          \* the credential of the process environment
    model,            \* the module-level model object, or None
    uploaded_resume,  \* the file uploader's value
    job_description,  \* the text area's value
    widgetsShown,     \* whether the last run reached the input widgets
    clicked,          \* st.button's value in this run
    pc,               \* the position of the run in the script
    resume_text,      \* the handler's local: get_pdf_text's result
    response,         \* get_gemini_response's local: bound, and its text
    wrapped,          \* the document the remote model wrapped in response
    analysis_result,  \* the handler's local: get_gemini_response's result
    ui,               \* the elements on the page
    stages,           \* the stages this run has entered
    runCalls,         \* calls of generate_content in this run
    calls,            \* calls of generate_content so far
    reached,          \* submissions that reached the request stage so far
    lastPrompt,       \* the prompt of the latest call of generate_content
    repeated,         \* this run's prompt is that of the call before it
    submits           \* clicks of the Analyze button so far

vars ==
    <<API_KEY, model, uploaded_resume, job_description, widgetsShown, clicked,
      pc, resume_text, response, wrapped, analysis_result, ui, stages,
      runCalls, calls, reached, lastPrompt, repeated, submits>>

\* Lines 46-84: the prompt, a fixed template around the two texts.
Prompt(resume, jd) == [resume_text |-> resume, jd_text |-> jd]

\* No prompt has been sent.
NoPrompt == Prompt(<<>>, <<>>)

Unbound == [bound |-> FALSE, text |-> <<>>]

\* The process has started and the first session runs the script: the
\* widgets are empty and the button is not clicked.
Init ==
    /\ API_KEY \in ApiKeys
    /\ model = PyNone
    /\ uploaded_resume = NoFile
    /\ job_description = <<>>
    /\ widgetsShown = FALSE
    /\ clicked = FALSE
    /\ pc = "config"
    /\ resume_text = PyNone
    /\ response = Unbound
    /\ wrapped = <<>>
    /\ analysis_result = PyNone
    /\ ui = <<>>
    /\ stages = {}
    /\ runCalls = 0
    /\ calls = 0
    /\ reached = 0
    /\ lastPrompt = NoPrompt
    /\ repeated = FALSE
    /\ submits = 0

(***************************************************************************)
(* A user interaction starts a run of the whole script on a cleared page.  *)
(***************************************************************************)
BeginRun(button) ==
    /\ pc = "idle"
    /\ pc' = "config"
    /\ clicked' = button
    /\ widgetsShown' = FALSE
    /\ model' = PyNone
    /\ resume_text' = PyNone
    /\ response' = Unbound
    /\ wrapped' = <<>>
    /\ analysis_result' = PyNone
    /\ ui' = <<>>
    /\ stages' = {}
    /\ runCalls' = 0
    /\ repeated' = FALSE
    /\ UNCHANGED <<API_KEY, calls, reached, lastPrompt>>

\* The browser opens or reloads the page: a new session, the widgets empty.
LoadPage ==
    /\ BeginRun(FALSE)
    /\ uploaded_resume' = NoFile
    /\ job_description' = <<>>
    /\ UNCHANGED submits

\* The user uploads or removes the resume.
Upload(f) ==
    /\ widgetsShown
    /\ f # uploaded_resume
    /\ BeginRun(FALSE)
    /\ uploaded_resume' = f
    /\ UNCHANGED <<job_description, submits>>

\* The user edits the job description.
EditJobDescription(t) ==
    /\ widgetsShown
    /\ t # job_description
    /\ BeginRun(FALSE)
    /\ job_description' = t
    /\ UNCHANGED <<uploaded_resume, submits>>

\* The user clicks Analyze.
ClickAnalyze ==
    /\ widgetsShown
    /\ submits < MaxSubmits
    /\ BeginRun(TRUE)
    /\ submits' = submits + 1
    /\ UNCHANGED <<uploaded_resume, job_description>>

(***************************************************************************)
(* The steps of a run.                                                     *)
(***************************************************************************)
\* The run ends: st.stop(), an uncaught exception, or the end of the script.
EndRun == pc' = "idle"

\* Lines 12-25: the module configuration.
Configure ==
    /\ pc = "config"
    /\ IF Truthy(API_KEY)
       THEN \/ /\ model' = GenerativeModel
               /\ pc' = "keycheck"
               /\ UNCHANGED ui
            \/ \* genai.configure or GenerativeModel raises
               /\ model' = PyNone
               /\ ui' = Append(ui, Elem("error", "Error configuring Generative AI",
                                        "Exception", PyNone))
               /\ EndRun
       ELSE /\ model' = PyNone
            /\ pc' = "keycheck"
            /\ UNCHANGED ui
    /\ UNCHANGED <<API_KEY, uploaded_resume, job_description, widgetsShown,
                   clicked, resume_text, response, wrapped, analysis_result,
                   stages, runCalls, calls, reached, lastPrompt, repeated,
                   submits>>

\* Mutant of KeyBlocked: the key is compared with None, so that an empty
\* key passes.
KeyBlockedIsNone == API_KEY.t = "None"

\* Lines 232-235: whether the API key is configured.
KeyBlocked == ~Truthy(API_KEY) \/ ~Truthy(model)

\* Lines 232-235.
KeyCheck ==
    /\ pc = "keycheck"
    /\ IF KeyBlocked
       THEN /\ ui' = ui \o <<Elem("error", "API Key not found or invalid", "", PyNone),
                             Elem("info", "Example .env file content", "", PyNone)>>
            /\ EndRun
       ELSE /\ pc' = "widgets"
            /\ UNCHANGED ui
    /\ UNCHANGED <<API_KEY, model, uploaded_resume, job_description,
                   widgetsShown, clicked, resume_text, response, wrapped,
                   analysis_result, stages, runCalls, calls, reached,
                   lastPrompt, repeated, submits>>

\* Lines 238-254: the input widgets and the Analyze button.
Widgets ==
    /\ pc = "widgets"
    /\ widgetsShown' = TRUE
    /\ IF clicked
       THEN /\ pc' = "validate"
            /\ stages' = stages \cup {"handler"}
       ELSE /\ EndRun
            /\ UNCHANGED stages
    /\ UNCHANGED <<API_KEY, model, uploaded_resume, job_description, clicked,
                   resume_text, response, wrapped, analysis_result, ui,
                   runCalls, calls, reached, lastPrompt, repeated, submits>>

\* Mutant of InputsPresent: the job description is not tested.
InputsPresentResumeOnly == uploaded_resume.present

\* Line 255: both inputs are present.
InputsPresent == uploaded_resume.present /\ Truthy(PyStr(job_description))

\* Lines 255 and 303-304: the validation of the inputs.
Validate ==
    /\ pc = "validate"
    /\ IF InputsPresent
       THEN /\ pc' = "extract"
            /\ UNCHANGED ui
       ELSE /\ ui' = Append(ui, Elem("error", "Please upload a resume and paste a job description to proceed.",
                                     "", PyNone))
            /\ EndRun
    /\ UNCHANGED <<API_KEY, model, uploaded_resume, job_description,
                   widgetsShown, clicked, resume_text, response, wrapped,
                   analysis_result, stages, runCalls, calls, reached,
                   lastPrompt, repeated, submits>>

RECURSIVE Concat(_)
\* Lines 33-36: the text of the pages, in page order.
Concat(pages) ==
    IF pages = <<>> THEN <<>> ELSE Head(pages) \o Concat(Tail(pages))

\* Mutant of PdfText: the except branch returns the error text, not None.
PdfTextReturnsMessage(pdf_file) ==
    IF pdf_file.parseable THEN PyStr(Concat(pdf_file.pages))
    ELSE PyStr(<<"E", "r", "r", "o", "r">>)

\* Lines 28-40: get_pdf_text's return value.
PdfText(pdf_file) ==
    IF pdf_file.parseable THEN PyStr(Concat(pdf_file.pages)) ELSE PyNone

\* Lines 38-39: what get_pdf_text puts on the page.
PdfErrors(pdf_file) ==
    IF pdf_file.parseable THEN <<>>
    ELSE <<Elem("error", "Error reading PDF file", "Exception", PyNone)>>

\* Line 260: the handler goes on to the request.
TextAccepted(text) == Truthy(text)

\* Lines 256-260: the extraction.
Extract ==
    /\ pc = "extract"
    /\ stages' = stages \cup {"extract"}
    /\ resume_text' = PdfText(uploaded_resume)
    /\ ui' = ui \o PdfErrors(uploaded_resume)
    /\ IF TextAccepted(resume_text')
       THEN /\ pc' = "request"
            /\ reached' = reached + 1
       ELSE /\ EndRun
            /\ UNCHANGED reached
    /\ UNCHANGED <<API_KEY, model, uploaded_resume, job_description,
                   widgetsShown, clicked, response, wrapped, analysis_result,
                   runCalls, calls, lastPrompt, repeated, submits>>

(***************************************************************************)
(* get_gemini_response, lines 42-98.  resp is the local `response` after   *)
(* line 87: unbound when generate_content raised, else bound with its text.*)
(***************************************************************************)
\* Mutant of RequestsIssued: a failed call is retried once.
RequestsIssuedRetry(resp) == IF resp.bound THEN 1 ELSE 2

\* Line 87: the calls of generate_content one call of the function makes.
RequestsIssued(resp) == 1

\* Lines 90-91: the parse of the cleaned response.
ParsedResponse(resp) == JsonLoads(CleanResponse(resp.text))

\* Lines 86-92: the exception the try block raises, "" when it returns.
RaisedBy(resp) ==
    IF ~resp.bound THEN "ServiceError"
    ELSE IF ~ParsedResponse(resp).ok THEN "JSONDecodeError"
    ELSE ""

\* Mutant of RawResponseText: the cleaned text is shown, not the raw one.
RawResponseTextCleaned(resp) ==
    IF resp.bound THEN CleanResponse(resp.text) ELSE NoResponseReceived

\* Mutant of RawResponseText: response.text is read whether or not a
\* response exists.
RawResponseTextUnguarded(resp) == resp.text

\* Lines 94-96: raw_response_text.
RawResponseText(resp) ==
    IF resp.bound THEN resp.text ELSE NoResponseReceived

\* Lines 93-97: what the except branch puts on the page.
GeminiErrors(resp) ==
    IF RaisedBy(resp) = "" THEN <<>>
    ELSE <<Elem("error", "An error occurred while communicating with the AI model",
                RaisedBy(resp), PyNone),
           Elem("error", "Raw AI Response that caused error", "",
                PyStr(RawResponseText(resp)))>>

\* Lines 91 and 98: get_gemini_response's return value.
GeminiResponse(resp) ==
    IF RaisedBy(resp) = "" THEN ParsedResponse(resp).v ELSE PyNone

\* Line 264: the handler goes on to the report.
ResultAccepted(result) == Truthy(result)

\* Lines 262-264: the request.  The remote service fails, or answers with a
\* document between a prefix and a suffix.
Request ==
    /\ pc = "request"
    /\ \/ /\ response' = Unbound
          /\ wrapped' = <<>>
       \/ \E p \in Prefixes, d \in Documents, s \in Suffixes :
             /\ response' = [bound |-> TRUE, text |-> p \o d \o s]
             /\ wrapped' = d
    /\ stages' = stages \cup {"request"}
    /\ runCalls' = runCalls + RequestsIssued(response')
    /\ calls' = calls + RequestsIssued(response')
    /\ lastPrompt' = Prompt(resume_text.s, job_description)
    /\ repeated' = (lastPrompt' = lastPrompt)
    /\ analysis_result' = GeminiResponse(response')
    /\ ui' = ui \o GeminiErrors(response')
    /\ IF ResultAccepted(analysis_result') THEN pc' = "render" ELSE EndRun
    /\ UNCHANGED <<API_KEY, model, uploaded_resume, job_description,
                   widgetsShown, clicked, resume_text, reached, submits>>

(***************************************************************************)
(* The report, lines 265-302.                                              *)
(***************************************************************************)
\* Whether the last of the elements is an uncaught exception.
Raised(elems) == elems # <<>> /\ elems[Len(elems)].k = "exception"

\* The elements of a, then those of b unless a raised.
Then(a, b) == IF Raised(a) THEN a ELSE a \o b

\* `for x in v`: the values a for loop draws from v; ok is FALSE where v is
\* not iterable (TypeError).
PyIter(v) ==
    CASE v.t = "list" -> [ok |-> TRUE, items |-> v.items]
      [] v.t = "str"  -> [ok |-> TRUE, items |-> [i \in 1..Len(v.s) |-> PyStr(<<v.s[i]>>)]]
      [] v.t = "dict" -> [ok |-> TRUE, items |-> [i \in 1..Len(v.items) |-> PyStr(v.items[i].k)]]
      [] OTHER        -> [ok |-> FALSE, items |-> <<>>]

RECURSIVE SkillWarnings(_)
\* Lines 283-284: one warning per entry; skill.get raises AttributeError on
\* an entry that is no dict.
SkillWarnings(entries) ==
    IF entries = <<>> THEN <<>>
    ELSE LET skill == Head(entries)
         IN  IF skill.t # "dict" THEN <<Uncaught("AttributeError")>>
             ELSE <<Elem("warning", "missing_skills", "",
                         PyList(<<DictGet(skill, K_skill, PyNone),
                                  DictGet(skill, K_importance, PyNone),
                                  DictGet(skill, K_explanation, PyNone)>>))>>
                  \o SkillWarnings(Tail(entries))

\* Lines 280-286.
MissingSkillsSection(result) ==
    LET missing_skills == DictGet(result, K_missing_skills, PyList(<<>>))
    IN  <<Elem("subheader", "Missing Skills", "", PyNone)>>
        \o IF Truthy(missing_skills)
           THEN IF PyIter(missing_skills).ok
                THEN SkillWarnings(PyIter(missing_skills).items)
                ELSE <<Uncaught("TypeError")>>
           ELSE <<Elem("info", "no_gaps", "", PyNone)>>

\* Lines 288-292.
RecommendationsSection(result) ==
    LET recommendations == DictGet(result, K_resume_recommendations, PyList(<<>>))
        recs == PyIter(recommendations).items
    IN  <<Elem("subheader", "Resume Recommendations", "", PyNone)>>
        \o IF Truthy(recommendations)
           THEN IF PyIter(recommendations).ok
                THEN [i \in 1..Len(recs) |->
                         Elem("markdown", "resume_recommendations", "", recs[i])]
                ELSE <<Uncaught("TypeError")>>
           ELSE <<>>

\* Lines 265-268.
ReportHead ==
    <<Elem("success", "Analysis Complete!", "", PyNone),
      Elem("balloons", "", "", PyNone),
      Elem("header", "Analysis Report", "", PyNone)>>

\* Lines 271-278.
ScoreAndSummary(result) ==
    <<Elem("metric", "match_score", "",
           DictGet(result, K_match_score, PyStr(NotApplicable))),
      Elem("subheader", "Candidate Summary", "", PyNone),
      Elem("write", "candidate_summary", "",
           DictGet(result, K_candidate_summary, PyStr(NotAvailable)))>>

\* Lines 294-302.
AdviceAndFeedback(result) ==
    <<Elem("subheader", "Career Advice", "", PyNone),
      Elem("info", "career_advice", "",
           DictGet(result, K_career_advice, PyStr(NotAvailable))),
      Elem("subheader", "Overall Feedback", "", PyNone),
      Elem("success", "feedback", "",
           DictGet(result, K_feedback, PyStr(NotAvailable))),
      Elem("expander", "Show Raw JSON Output", "", PyNone),
      Elem("json", "raw", "", result)>>

\* Lines 265-302: what the report puts on the page.  analysis_result.get
\* raises AttributeError on a result that is no dict.
RenderReport(result) ==
    IF result.t # "dict" THEN ReportHead \o <<Uncaught("AttributeError")>>
    ELSE Then(Then(Then(ReportHead \o ScoreAndSummary(result),
                        MissingSkillsSection(result)),
                   RecommendationsSection(result)),
              AdviceAndFeedback(result))

\* Lines 264-302: the report.
Render ==
    /\ pc = "render"
    /\ stages' = stages \cup {"render"}
    /\ ui' = ui \o RenderReport(analysis_result)
    /\ EndRun
    /\ UNCHANGED <<API_KEY, model, uploaded_resume, job_description,
                   widgetsShown, clicked, resume_text, response, wrapped,
                   analysis_result, runCalls, calls, reached, lastPrompt, repeated, submits>>

Next ==
    \/ LoadPage
    \/ \E f \in Files : Upload(f)
    \/ \E t \in JobDescriptions : EditJobDescription(t)
    \/ ClickAnalyze
    \/ Configure
    \/ KeyCheck
    \/ Widgets
    \/ Validate
    \/ Extract
    \/ Request
    \/ Render

Spec == Init /\ [][Next]_vars

(***************************************************************************)
(* What a run has put on the page.                                         *)
(***************************************************************************)
Has(kind, id) == \E i \in 1..Len(ui) : ui[i].k = kind /\ ui[i].id = id

\* An error message or an uncaught exception is on the page.
ErrorShown == \E i \in 1..Len(ui) : ui[i].k \in {"error", "exception"}

ExceptionShown == \E i \in 1..Len(ui) : ui[i].k = "exception"

SuccessShown == Has("success", "Analysis Complete!")

ScoreShown == Has("metric", "match_score")

SummaryShown == Has("write", "candidate_summary")

SkillsShown == Has("warning", "missing_skills") \/ Has("info", "no_gaps")

RecommendationsShown == Has("subheader", "Resume Recommendations")

AdviceShown == Has("info", "career_advice")

FeedbackShown == Has("success", "feedback")

AllSections ==
    /\ ScoreShown /\ SummaryShown /\ SkillsShown
    /\ RecommendationsShown /\ AdviceShown /\ FeedbackShown

AnySection ==
    \/ ScoreShown \/ SummaryShown \/ SkillsShown \/ Has("subheader", "Missing Skills")
    \/ RecommendationsShown \/ AdviceShown \/ FeedbackShown
    \/ Has("header", "Analysis Report")

\* The run is over.
RunOver == pc = "idle"

\* A document is uploaded and the job description is not empty.
BothInputs == uploaded_resume.present /\ job_description # <<>>

\* The raw-response diagnostic messages on the page.
RawDiagnostics ==
    {i \in 1..Len(ui) :
        ui[i].k = "error" /\ ui[i].id = "Raw AI Response that caused error"}

\* The response of this run was received and its cleaned text is JSON.
ParsedOk == response.bound /\ JsonLoads(CleanResponse(response.text)).ok

\* The response of this run was received and its cleaned text is no JSON.
Malformed == response.bound /\ ~JsonLoads(CleanResponse(response.text)).ok

(***************************************************************************)
(* The claims.                                                             *)
(***************************************************************************)
\* C1: partial results are never rendered.  In every run that received a
\* response whose cleaned text is JSON, a report and an error never occur
\* together: when any part of the report or the 'Analysis Complete!'
\* message is on the page, all six report sections are and no error or
\* exception is.
C1_NoPartialResults ==
    (RunOver /\ "request" \in stages /\ ParsedOk /\ (AnySection \/ SuccessShown)) =>
        AllSections /\ ~ErrorShown

\* C2: every run that passes the validation of the inputs ends either with
\* the report rendered or with an error message, and never with neither.
C2_RenderedOrError ==
    (RunOver /\ "extract" \in stages) =>
        \/ AllSections /\ ~ErrorShown
        \/ ErrorShown /\ ~AllSections

\* C3: the report renderer never fails on a parsed object: whatever fields
\* are absent or malformed, every section is rendered and no exception is
\* raised.
C3_RendererNeverFails ==
    (RunOver /\ "request" \in stages /\ ParsedOk /\ analysis_result.t = "dict") =>
        AllSections /\ ~ExceptionShown

\* C4: normalization removes the surrounding whitespace, one leading fence
\* marker with its language tag and one trailing fence marker, and nothing
\* else: the cleaned response is the document the fence wrapped.
C4_NormalizationExact ==
    response.bound => CleanResponse(response.text) = wrapped

\* C5: when the uploaded bytes are no parseable PDF, get_pdf_text reports an
\* error and returns no text, the run ends and makes no remote call; in
\* every run the remote call is made only after extraction has returned
\* text in the same run.
C5_NoCallWithoutExtraction ==
    /\ ("extract" \in stages /\ ~uploaded_resume.parseable) =>
          /\ resume_text = PyNone
          /\ Has("error", "Error reading PDF file")
          /\ RunOver
          /\ "request" \notin stages
          /\ runCalls = 0
    /\ (runCalls > 0 \/ pc \in {"request", "render"} \/ "request" \in stages) =>
          /\ "extract" \in stages
          /\ uploaded_resume.parseable
          /\ resume_text.t = "str" /\ resume_text.s # <<>>

\* The run on an unparseable upload is over.
C5_Witness ==
    /\ RunOver /\ "extract" \in stages
    /\ uploaded_resume.present /\ ~uploaded_resume.parseable

\* C6: when Analyze is clicked while the document is missing or the job
\* description is empty, the run ends with the validation error alone and
\* attempts neither extraction nor the remote call; extraction is attempted
\* only when both inputs are present.
C6_ValidationBlocks ==
    /\ ("handler" \in stages /\ pc # "validate" /\ ~BothInputs) =>
          /\ RunOver
          /\ ui = <<Elem("error", "Please upload a resume and paste a job description to proceed.",
                         "", PyNone)>>
          /\ stages = {"handler"}
          /\ runCalls = 0
    /\ (pc = "extract" \/ "extract" \in stages) => BothInputs

\* Analyze was clicked with a resume and no job description.
C6_Witness ==
    /\ RunOver /\ "handler" \in stages
    /\ uploaded_resume.present /\ job_description = <<>>

\* C7: when the cleaned text of a received response is no JSON,
\* get_gemini_response returns no result, the error on the page carries the
\* raw response text exactly as received, and no report is rendered.
C7_MalformedShowsRawText ==
    ("request" \in stages /\ Malformed) =>
        /\ analysis_result = PyNone
        /\ RunOver
        /\ RawDiagnostics # {}
        /\ \A i \in RawDiagnostics : ui[i].v = PyStr(response.text)
        /\ Has("error", "An error occurred while communicating with the AI model")
        /\ "render" \notin stages
        /\ ~AnySection /\ ~SuccessShown

\* A fenced response that is no JSON was received: its raw text differs from
\* its cleaned text.
C7_Witness ==
    /\ "request" \in stages /\ Malformed
    /\ CleanResponse(response.text) # response.text

\* C8: with no usable credential the analysis feature is blocked with a
\* message and nothing crashes: the widgets and the handler are never
\* reached, and neither extraction nor a remote call happens.
C8_NoKeyBlocks ==
    /\ ~Truthy(API_KEY) =>
          /\ pc \in {"idle", "config", "keycheck"}
          /\ ~widgetsShown /\ stages = {} /\ runCalls = 0 /\ calls = 0
    /\ (RunOver /\ (~Truthy(API_KEY) \/ ~Truthy(model))) =>
          /\ ~widgetsShown /\ stages = {} /\ runCalls = 0
          /\ \/ Has("error", "API Key not found or invalid")
             \/ Has("error", "Error configuring Generative AI")
          /\ ~ExceptionShown
    /\ pc \in {"widgets", "validate", "extract", "request", "render"} =>
          Truthy(API_KEY) /\ Truthy(model)

\* A run without a credential is over, the message on the page.
C8_Witness ==
    /\ RunOver /\ ~Truthy(API_KEY)
    /\ Has("error", "API Key not found or invalid")

C10_NoDiagnosticOnTransportFailure ==
    ("request" \in stages /\ ~response.bound) => RawDiagnostics = {}

\* C10 as amended: response text is shown in the raw-response diagnostic
\* only when a response was received.  On a transport failure the
\* diagnostic is emitted with the placeholder 'No response received', and
\* the error before it names the service failure, not a parse error.
C10_PlaceholderOnTransportFailure ==
    /\ ("request" \in stages /\ ~response.bound) =>
          /\ RawDiagnostics # {}
          /\ \A i \in RawDiagnostics : ui[i].v = PyStr(NoResponseReceived)
          /\ \A i \in 1..Len(ui) : ui[i].k = "error" => ui[i].e \in {"", "ServiceError"}
          /\ \E i \in 1..Len(ui) : ui[i].e = "ServiceError"
    /\ \A i \in RawDiagnostics :
          ui[i].v # PyStr(NoResponseReceived) =>
              /\ response.bound /\ ui[i].v = PyStr(response.text)
              /\ \E j \in 1..Len(ui) : ui[j].e = "JSONDecodeError"

\* A run whose remote call failed is over.
C10_Witness == RunOver /\ "request" \in stages /\ ~response.bound

=============================================================================
